---------------------------- MODULE Spec2Model ----------------------------
(***************************************************************************)
(* The dwell/commit core of the sign translator (App.svelte, 100 ms poll   *)
(* variant): hands.onResults feeds one classification per camera frame     *)
(* into startCountdown / resetCountdown, and the setInterval callback      *)
(* armed by startCountdown commits the majority of signBuffer once the     *)
(* dwell has elapsed.                                                      *)
(*                                                                         *)
(* Units: times are Date.now() readings in ms; confidences are percent     *)
(* (0.6 is 60); trackingTime is in tenths of a second (3 s is 30), so      *)
(* trackingTime * 1000 of the source is trackingTime * 100 here.  The       *)
(* display-only variables (prediction, confidence, handVisible, debug,     *)
(* countdownValue) are not part of the model.                              *)
(* A string is a sequence of one-character strings; a letter label is one  *)
(* character, DELETE and SPACE are labels that are never appended.         *)
(***************************************************************************)
EXTENDS Integers, Sequences, FiniteSets, TLC

\* ------------------------------------------------------------ bounds ----
MaxTime == 4000
MaxBuf == 2
MaxText == 1
MaxVotes == 4

\* ------------------------------------------------- program constants ----
bufferThreshold == 60
PollIntervalMs == 100
DefaultTrackingTime == 30
DefaultCountdownDurationMs == 3000

\* ------------------------------------------------------ input domains ---
Letters == {"A", "B"}
Labels == Letters \cup {"SPACE"}
Confidences == {40, 60, 90}
TrackingTimes == {5, 30}
ClockSteps == {5 * PollIntervalMs, 10 * PollIntervalMs}
TimerIds == {1, 2}
Surrogate == "\\uD800"
TypedChars == {Surrogate}
VoteLabels == Labels \cup {"DELETE"}

Undefined == 0
InitialCountdownValue == 3                   \* let countdownValue = 3
Null == -1
NoAction == "none"

VARIABLES
    now,                 \* Date.now()
    inputText,
    countdownActive,
    lastAcceptedAction,
    signBuffer,
    countdownStartTime,
    trackingTime,
    countdownStartMs,
    countdownDurationMs,
    countdownTimer,      \* handle last returned by setInterval, or Undefined
    timers,              \* live interval timers of the page: [id, pending]
    emitted,             \* argument of executeAction in this step, or NoAction
    tallied,             \* signBuffer as getMostFrequentAction read it in this step
    search,              \* submitSearch in this step: "none", "opened", "threw"
    lastEvent,           \* the step taken last and whether it found
                         \* countdownActive set; for a frame also its
                         \* label, its confidence and the
                         \* lastAcceptedAction it found
    script,              \* index of the next frame of ScenarioFrames, or 0
                         \* when the frames are not scripted
    commitLog,           \* <<t>> when executeAction was last called at time
                         \* t, <<>> before the first call; NotLogged in the
                         \* specifications that keep no log
    AppSvelte_countdownValue,
                         \* countdownValue of src/sign-translator/src/App.svelte,
                         \* whose interval timer counts seconds down
    AppSvelte_ticks,     \* callbacks of that timer run since a countdown was
                         \* last armed
    setupStatus,
    errorMessage,
    model,               \* model of lib/model.ts: NoModel, or the kind loaded
    isModelLoaded,
    loadModelPromise,    \* the promise of loadModel(): "none" before the
                         \* call, then "pending", "fulfilled" or "rejected"
    pc,                  \* the statement onMount and loadModel have reached
    attempts             \* the steps of the set-up taken so far, each with
                         \* its outcome

vars == <<now, inputText, countdownActive, lastAcceptedAction,
          signBuffer, countdownStartTime, trackingTime, countdownStartMs,
          countdownDurationMs, countdownTimer, timers, emitted, tallied,
          search, lastEvent, script, commitLog,
          AppSvelte_countdownValue, AppSvelte_ticks,
          setupStatus, errorMessage, model, isModelLoaded,
          loadModelPromise, pc, attempts>>

\* ------------------------------------------------------------ helpers ---
Max(a, b) == IF a >= b THEN a ELSE b

RECURSIVE CountOf(_, _)
CountOf(buf, a) ==
    IF buf = <<>> THEN 0
    ELSE (IF buf[1] = a THEN 1 ELSE 0) + CountOf(Tail(buf), a)

\* keys of actionCounts in the order Object.entries yields them: the order
\* in which reduce first created each key (no label is an integer-like key)
RECURSIVE EntryKeys(_, _)
EntryKeys(buf, seen) ==
    IF buf = <<>> THEN seen
    ELSE IF \E i \in 1..Len(seen) : seen[i] = buf[1]
         THEN EntryKeys(Tail(buf), seen)
         ELSE EntryKeys(Tail(buf), Append(seen, buf[1]))

\* mutant: ">=" for ">", so the last of the tied labels wins
Beats_OrEqual(count, maxCount) == count >= maxCount

\* if (count > maxCount)
Beats(count, maxCount) == count > maxCount

\* the for-loop over Object.entries(actionCounts): [action, maxCount] once
\* the keys from position i onward have been visited
RECURSIVE ScanEntries(_, _, _, _)
ScanEntries(keys, buf, i, best) ==
    IF i > Len(keys) THEN best
    ELSE IF Beats(CountOf(buf, keys[i]), best.maxCount)
         THEN ScanEntries(keys, buf, i + 1,
                          [action |-> keys[i], maxCount |-> CountOf(buf, keys[i])])
         ELSE ScanEntries(keys, buf, i + 1, best)

\* position at which the running count of a reaches c
ReachIndex(buf, a, c) ==
    CHOOSE i \in 1..Len(buf) :
        /\ CountOf(SubSeq(buf, 1, i), a) = c
        /\ \A j \in 1..(i - 1) : CountOf(SubSeq(buf, 1, j), a) < c

VotedLabels(buf) == {buf[i] : i \in 1..Len(buf)}

MaxCount(buf) ==
    CHOOSE c \in 0..Len(buf) :
        /\ \A a \in VotedLabels(buf) : CountOf(buf, a) <= c
        /\ buf # <<>> => \E a \in VotedLabels(buf) : CountOf(buf, a) = c

TiedLabels(buf) == {a \in VotedLabels(buf) : CountOf(buf, a) = MaxCount(buf)}

\* mutant: the tied label whose running count reaches the maximum first
getMostFrequentAction_FirstToReach(buf, last) ==
    IF Len(buf) = 0 THEN last
    ELSE CHOOSE a \in TiedLabels(buf) :
            \A m \in TiedLabels(buf) :
                ReachIndex(buf, a, MaxCount(buf)) <= ReachIndex(buf, m, MaxCount(buf))

\* mutant: the commit takes the label that opened the countdown
getMostFrequentAction_Leading(buf, last) == last

getMostFrequentAction(buf, last) ==
    IF Len(buf) = 0 THEN last
    ELSE ScanEntries(EntryKeys(buf, <<>>), buf, 1,
                     [action |-> buf[1], maxCount |-> 0]).action

\* encodeURIComponent throws URIError on a lone surrogate; trim() removes
\* white space only, so it never removes one
SearchThrows(text) == \E i \in 1..Len(text) : text[i] = Surrogate

\* submitSearch(): what became of the window.open call
submitSearch(text) == IF SearchThrows(text) THEN "threw" ELSE "opened"

\* executeAction: the text afterwards and what submitSearch did
executeAction(action, text) ==
    IF action = "DELETE" THEN [text |-> <<>>, search |-> "none"]
    ELSE IF action = "SPACE"
         THEN [text |-> text, search |-> submitSearch(text)]
         ELSE [text |-> IF action = "" THEN text ELSE Append(text, action),
               search |-> "none"]

clearInterval(ts, id) == {t \in ts : t.id # id}

\* setInterval returns a handle that no live timer has.  Handles are only
\* ever passed to clearInterval, which ignores the handle of a dead timer,
\* so the handle of a dead timer stands for any handle that is not live.
FreshTimerId(ts) ==
    CHOOSE i \in TimerIds :
        /\ \A t \in ts : t.id # i
        /\ \A j \in TimerIds : (\A t \in ts : t.id # j) => i <= j

CanArm(ts) == \E i \in TimerIds : \A t \in ts : t.id # i

\* a new interval timer; its first firing is one interval away
setInterval(ts) == ts \cup {[id |-> FreshTimerId(ts), pending |-> FALSE]}

\* if (countdownTimer) clearInterval(countdownTimer)
ClearHeld(ts, held) == IF held # Undefined THEN clearInterval(ts, held) ELSE ts

\* mutant: the elapsed time is the distance between the clock and the
\* origin, whichever is later
Elapsed_Magnitude(nowMs, startMs) ==
    IF nowMs >= startMs THEN nowMs - startMs ELSE startMs - nowMs

\* mutant: the elapsed time is not taken from the origin of the countdown
Elapsed_FromZero(nowMs, startMs) == nowMs

\* const elapsed = Date.now() - countdownStartMs
Elapsed(nowMs, startMs) == nowMs - startMs

\* mutant: the callback takes the duration from the slider as it stands
Remaining_LiveTrackingTime(nowMs, startMs, durationMs) ==
    Max(0, trackingTime * 100 - Elapsed(nowMs, startMs))

\* const remaining = Math.max(0, countdownDurationMs - elapsed)
Remaining(nowMs, startMs, durationMs) == Max(0, durationMs - Elapsed(nowMs, startMs))

\* ------------------------------------------------------------- Init -----
NotLogged == <<Null>>

\* let model = null
NoModel == "null"

\* one step of the set-up and how it ended
Attempt(step, ok) == [step |-> step, ok |-> ok]

\* the component once onMount has run to its end without an error: the
\* libraries found, the model loaded as a GraphModel and tested, the camera
\* started
MountedReady ==
    /\ setupStatus = "ready"
    /\ errorMessage = ""
    /\ model = "GraphModel"
    /\ isModelLoaded = TRUE
    /\ loadModelPromise = "fulfilled"
    /\ pc = "done"
    /\ attempts = << Attempt("libraries", TRUE), Attempt("tfReady", TRUE),
                     Attempt("GraphModel", TRUE), Attempt("test", TRUE),
                     Attempt("hands", TRUE), Attempt("camera", TRUE) >>

Init ==
    /\ now = 0
    /\ inputText = <<>>
    /\ countdownActive = FALSE
    /\ lastAcceptedAction = ""
    /\ signBuffer = <<>>
    /\ countdownStartTime = Null
    /\ trackingTime = DefaultTrackingTime
    /\ countdownStartMs = 0
    /\ countdownDurationMs = DefaultCountdownDurationMs
    /\ countdownTimer = Undefined
    /\ timers = {}
    /\ emitted = NoAction
    /\ tallied = <<>>
    /\ search = "none"
    /\ lastEvent = [kind |-> "init", dwelling |-> FALSE]
    /\ script = 0
    /\ commitLog = NotLogged
    /\ AppSvelte_countdownValue = InitialCountdownValue
    /\ AppSvelte_ticks = 0
    /\ MountedReady

\* ---------------------------------------------------------- handlers ----
\* a step outside onMount and loadModel
SetupKept ==
    UNCHANGED <<setupStatus, errorMessage, model, isModelLoaded,
                loadModelPromise, pc, attempts>>

\* executeAction is not called
Quiet ==
    /\ emitted' = NoAction
    /\ tallied' = <<>>
    /\ search' = "none"
    /\ UNCHANGED commitLog

NoOutput == Quiet /\ SetupKept

\* executeAction is called at time t
Logged(t) ==
    /\ commitLog' = IF commitLog = NotLogged THEN NotLogged ELSE <<t>>
    /\ SetupKept

\* a step that is no arming and no callback of the one-second timer
CountdownValueKept == UNCHANGED <<AppSvelte_countdownValue, AppSvelte_ticks>>

Event(kind) ==
    /\ lastEvent' = [kind |-> kind, dwelling |-> countdownActive]
    /\ UNCHANGED script
    /\ CountdownValueKept

FrameEvent(kind, label, conf) ==
    /\ lastEvent' = [kind |-> kind, dwelling |-> countdownActive,
                     label |-> label, conf |-> conf,
                     leading |-> lastAcceptedAction]
    /\ script' = IF script = 0 THEN 0 ELSE script + 1
    /\ CountdownValueKept

\* mutant: resetCountdown forgets the handle without cancelling the timer
resetCountdown_LeavesTimer ==
    /\ timers' = timers
    /\ countdownTimer' = Undefined
    /\ countdownActive' = FALSE
    /\ lastAcceptedAction' = ""
    /\ signBuffer' = <<>>
    /\ countdownStartTime' = Null
    /\ UNCHANGED <<countdownStartMs, countdownDurationMs>>

\* resetCountdown()
resetCountdown ==
    /\ timers' = ClearHeld(timers, countdownTimer)
    /\ countdownTimer' = Undefined
    /\ countdownActive' = FALSE
    /\ lastAcceptedAction' = ""
    /\ signBuffer' = <<>>
    /\ countdownStartTime' = Null
    /\ UNCHANGED <<countdownStartMs, countdownDurationMs>>

\* signBuffer as startCountdown leaves it: emptied only when no countdown
\* is active, then the action pushed
PushedBuffer(active, buf, action) ==
    Append(IF ~active THEN <<>> ELSE buf, action)

\* mutant: a restart keeps the origin of the countdown it replaces
ArmCountdown_KeepsOrigin(action) ==
    /\ CanArm(ClearHeld(timers, countdownTimer))
    /\ countdownActive' = TRUE
    /\ countdownDurationMs' = trackingTime * 100
    /\ countdownStartMs' = IF countdownActive THEN countdownStartMs ELSE now
    /\ lastAcceptedAction' = action
    /\ timers' = setInterval(ClearHeld(timers, countdownTimer))
    /\ countdownTimer' = FreshTimerId(ClearHeld(timers, countdownTimer))

\* mutant: a new timer is armed without cancelling the one held
ArmCountdown_NoClear(action) ==
    /\ CanArm(timers)
    /\ countdownActive' = TRUE
    /\ countdownDurationMs' = trackingTime * 100
    /\ countdownStartMs' = now
    /\ lastAcceptedAction' = action
    /\ timers' = setInterval(timers)
    /\ countdownTimer' = FreshTimerId(timers)

\* the part of startCountdown that arms a new countdown
ArmCountdown(action) ==
    /\ CanArm(ClearHeld(timers, countdownTimer))
    /\ countdownActive' = TRUE
    /\ countdownDurationMs' = trackingTime * 100
    /\ countdownStartMs' = now
    /\ lastAcceptedAction' = action
    /\ timers' = setInterval(ClearHeld(timers, countdownTimer))
    /\ countdownTimer' = FreshTimerId(ClearHeld(timers, countdownTimer))

\* mutant: every confident frame restarts the countdown, the leading label
\* included
startCountdown_NoFastPath(action, currentConfidence) ==
    /\ signBuffer' = PushedBuffer(countdownActive, signBuffer, action)
    /\ countdownStartTime' = IF ~countdownActive THEN now ELSE countdownStartTime
    /\ ArmCountdown(action)

\* mutant: the early return tests the label only, not countdownActive
startCountdown_FastPathIgnoresActive(action, currentConfidence) ==
    IF action = lastAcceptedAction
    THEN /\ signBuffer' = PushedBuffer(countdownActive, signBuffer, action)
         /\ UNCHANGED <<countdownActive, lastAcceptedAction, countdownStartTime,
                        countdownStartMs, countdownDurationMs,
                        countdownTimer, timers>>
    ELSE /\ signBuffer' = PushedBuffer(countdownActive, signBuffer, action)
         /\ countdownStartTime' = IF ~countdownActive THEN now ELSE countdownStartTime
         /\ ArmCountdown(action)

\* startCountdown(action, currentConfidence)
startCountdown(action, currentConfidence) ==
    IF countdownActive /\ action = lastAcceptedAction
    THEN /\ signBuffer' = PushedBuffer(countdownActive, signBuffer, action)
         /\ UNCHANGED <<countdownActive, lastAcceptedAction, countdownStartTime,
                        countdownStartMs, countdownDurationMs,
                        countdownTimer, timers>>
    ELSE IF currentConfidence >= bufferThreshold
    THEN /\ signBuffer' = PushedBuffer(countdownActive, signBuffer, action)
         /\ countdownStartTime' = IF ~countdownActive THEN now ELSE countdownStartTime
         /\ ArmCountdown(action)
    ELSE IF ~countdownActive
    THEN resetCountdown
    ELSE /\ signBuffer' = PushedBuffer(countdownActive, signBuffer, action)
         /\ UNCHANGED <<countdownActive, lastAcceptedAction, countdownStartTime,
                        countdownStartMs, countdownDurationMs,
                        countdownTimer, timers>>

\* mutant: the low-confidence branch pushes without testing countdownActive
BelowThreshold_AlwaysPushes(label) ==
    /\ signBuffer' = Append(signBuffer, label)
    /\ UNCHANGED <<countdownActive, lastAcceptedAction,
                   countdownStartTime, countdownStartMs,
                   countdownDurationMs, countdownTimer, timers>>

\* mutant: a low-confidence frame is handed to startCountdown as a
\* confident one
BelowThreshold_Opens(label) == startCountdown(label, bufferThreshold)

\* mutant: a low-confidence frame aborts the countdown
BelowThreshold_Aborts(label) == resetCountdown

\* the low-confidence branch of hands.onResults
BelowThreshold(label) ==
    IF countdownActive
    THEN /\ signBuffer' = Append(signBuffer, label)
         /\ UNCHANGED <<countdownActive, lastAcceptedAction,
                        countdownStartTime, countdownStartMs,
                        countdownDurationMs, countdownTimer, timers>>
    ELSE resetCountdown

\* mutant: a confidence equal to the threshold counts as low
MeetsThreshold_Strict(conf) == conf > bufferThreshold

\* result.confidence >= bufferThreshold
MeetsThreshold(conf) == conf >= bufferThreshold

\* hands.onResults with a hand and a prediction
ClassifyFrame(label, conf) ==
    /\ IF MeetsThreshold(conf)
       THEN startCountdown(label, conf) /\ FrameEvent("high", label, conf)
       ELSE BelowThreshold(label) /\ FrameEvent("low", label, conf)
    /\ NoOutput
    /\ UNCHANGED <<now, inputText, trackingTime>>

Classify(label, conf) ==
    /\ Len(signBuffer) < MaxBuf
    /\ ClassifyFrame(label, conf)

OnResultsPrediction == \E label \in Labels, conf \in Confidences : Classify(label, conf)

\* hands.onResults with a hand but no prediction: predictFromLandmarks
\* returned null, or threw
OnResultsNoPrediction ==
    /\ resetCountdown
    /\ Event("noPrediction")
    /\ NoOutput
    /\ UNCHANGED <<now, inputText, trackingTime>>

\* mutant: losing the hand also empties the text
OnResultsNoHand_ClearsText ==
    /\ resetCountdown
    /\ Event("noHand")
    /\ NoOutput
    /\ inputText' = <<>>
    /\ UNCHANGED <<now, trackingTime>>

\* hands.onResults without a hand
OnResultsNoHand ==
    /\ resetCountdown
    /\ Event("noHand")
    /\ NoOutput
    /\ UNCHANGED <<now, inputText, trackingTime>>

\* mutant: the commit does not cancel its interval timer
CloseWindow_LeavesTimer(fired) ==
    /\ signBuffer' = <<>>
    /\ countdownActive' = FALSE
    /\ timers' = fired
    /\ countdownStartTime' = Null

\* the statements after executeAction in the try block: skipped when
\* executeAction threw
CloseWindow(fired) ==
    /\ signBuffer' = <<>>
    /\ countdownActive' = FALSE
    /\ timers' = clearInterval(fired, countdownTimer)
    /\ countdownStartTime' = Null

\* the interval callback of startCountdown, run by timer t
PollTick(t) ==
    /\ t.pending
    /\ LET remaining == Remaining(now, countdownStartMs, countdownDurationMs)
           mostFrequentAction == getMostFrequentAction(signBuffer, lastAcceptedAction)
           done == executeAction(mostFrequentAction, inputText)
           fired == (timers \ {t}) \cup {[id |-> t.id, pending |-> FALSE]}
       IN  IF remaining <= 0
           THEN /\ emitted' = mostFrequentAction
                /\ tallied' = signBuffer
                /\ search' = done.search
                /\ Logged(now)
                /\ IF done.search = "threw"
                   THEN /\ timers' = fired
                        /\ UNCHANGED <<inputText, signBuffer, countdownActive,
                                       countdownStartTime>>
                   ELSE /\ Len(done.text) <= MaxText
                        /\ inputText' = done.text
                        /\ CloseWindow(fired)
           ELSE /\ NoOutput
                /\ timers' = fired
                /\ UNCHANGED <<inputText, signBuffer, countdownActive,
                               countdownStartTime>>
    /\ Event("poll")
    /\ UNCHANGED <<now, lastAcceptedAction, trackingTime, countdownStartMs,
                   countdownDurationMs, countdownTimer>>

OnInterval == \E t \in timers : PollTick(t)

\* mutant: the Clear button also puts the tracking time back to its default
clearInput_ResetsTrackingTime ==
    /\ inputText' = <<>>
    /\ resetCountdown
    /\ Event("clear")
    /\ NoOutput
    /\ trackingTime' = DefaultTrackingTime
    /\ UNCHANGED now

\* mutant: the Clear button empties the text and leaves the countdown
clearInput_TextOnly ==
    /\ inputText' = <<>>
    /\ Event("clear")
    /\ NoOutput
    /\ UNCHANGED <<now, trackingTime, countdownActive, lastAcceptedAction,
                   signBuffer, countdownStartTime, countdownStartMs,
                   countdownDurationMs, countdownTimer, timers>>

\* the Clear button
clearInput ==
    /\ inputText' = <<>>
    /\ resetCountdown
    /\ Event("clear")
    /\ NoOutput
    /\ UNCHANGED <<now, trackingTime>>

\* the tracking-time slider (bind:value={trackingTime})
SetTrackingTime ==
    /\ \E v \in TrackingTimes : v # trackingTime /\ trackingTime' = v
    /\ Event("slider")
    /\ NoOutput
    /\ UNCHANGED <<now, inputText, countdownActive, lastAcceptedAction,
                   signBuffer, countdownStartTime, countdownStartMs,
                   countdownDurationMs, countdownTimer, timers>>

\* the user types into the contenteditable text (bind:innerText={inputText})
EditText ==
    /\ Len(inputText) < MaxText
    /\ \E ch \in TypedChars : inputText' = Append(inputText, ch)
    /\ Event("edit")
    /\ NoOutput
    /\ UNCHANGED <<now, countdownActive, lastAcceptedAction, signBuffer,
                   countdownStartTime, trackingTime, countdownStartMs,
                   countdownDurationMs, countdownTimer, timers>>

\* time passes between two handlers; every live interval timer comes due
AdvanceWithin(steps, horizon) ==
    /\ \E d \in steps : now + d <= horizon /\ now' = now + d
    /\ timers' = {[id |-> t.id, pending |-> TRUE] : t \in timers}
    /\ Event("clock")
    /\ NoOutput
    /\ UNCHANGED <<inputText, countdownActive, lastAcceptedAction, signBuffer,
                   countdownStartTime, trackingTime, countdownStartMs,
                   countdownDurationMs, countdownTimer>>

Advance == AdvanceWithin(ClockSteps, MaxTime)

Next ==
    \/ OnResultsPrediction
    \/ OnResultsNoPrediction
    \/ OnResultsNoHand
    \/ OnInterval
    \/ clearInput
    \/ SetTrackingTime
    \/ EditText
    \/ Advance

Spec == Init /\ [][Next]_vars

TypeOK ==
    /\ now \in 0..MaxTime
    /\ countdownActive \in BOOLEAN
    /\ Len(signBuffer) <= MaxBuf
    /\ Len(inputText) <= MaxText
    /\ trackingTime \in TrackingTimes
    /\ countdownTimer \in TimerIds \cup {Undefined}

\* ------------------------------------------- majority on its own --------
\* A countdown whose dwell has just elapsed, for every buffer of up to
\* MaxVotes votes: opened by the first vote, the others pushed by later
\* frames; the interval callback then commits it.
Votes == UNION {[1..n -> VoteLabels] : n \in 1..MaxVotes}

InitMajority ==
    /\ now = DefaultCountdownDurationMs
    /\ inputText = <<>>
    /\ countdownActive = TRUE
    /\ signBuffer \in Votes
    /\ lastAcceptedAction = signBuffer[1]
    /\ countdownStartTime = 0
    /\ trackingTime = DefaultTrackingTime
    /\ countdownStartMs = 0
    /\ countdownDurationMs = DefaultCountdownDurationMs
    /\ countdownTimer = 1
    /\ timers = {[id |-> 1, pending |-> TRUE]}
    /\ emitted = NoAction
    /\ tallied = <<>>
    /\ search = "none"
    /\ lastEvent = [kind |-> "clock", dwelling |-> TRUE]
    /\ script = 0
    /\ commitLog = NotLogged
    /\ AppSvelte_countdownValue = InitialCountdownValue
    /\ AppSvelte_ticks = 0
    /\ MountedReady

NextMajority == OnInterval

SpecMajority == InitMajority /\ [][NextMajority]_vars

\* ------------------------------------------- a clock that is set back ---
\* Date.now() is the wall clock: between two handlers it may be set back
SkewHorizon == 1500

ClockBack ==
    /\ \E d \in ClockSteps : now - d >= 0 /\ now' = now - d
    /\ Event("clockBack")
    /\ NoOutput
    /\ UNCHANGED <<inputText, countdownActive, lastAcceptedAction, signBuffer,
                   countdownStartTime, trackingTime, countdownStartMs,
                   countdownDurationMs, countdownTimer, timers>>

SkewAdvance == AdvanceWithin(ClockSteps, SkewHorizon)

NextSkew ==
    \/ OnResultsPrediction
    \/ OnResultsNoHand
    \/ OnInterval
    \/ SetTrackingTime
    \/ SkewAdvance
    \/ ClockBack

SpecSkew == Init /\ [][NextSkew]_vars

\* ------------------------------------------- interval on its cadence ----
\* one interval passes, and the callback of every live timer has run since
\* it last came due: the timers fire every PollIntervalMs, none late
OnCadence(horizon) ==
    /\ \A t \in timers : ~t.pending
    /\ AdvanceWithin({PollIntervalMs}, horizon)

\* The component with its interval timers firing every PollIntervalMs:
\* frames, buttons, slider and typing come at any instant in any order.
CadenceHorizon == 1200

CadenceAdvance == OnCadence(CadenceHorizon)

NextCadence ==
    \/ OnResultsPrediction
    \/ OnResultsNoPrediction
    \/ OnResultsNoHand
    \/ OnInterval
    \/ clearInput
    \/ SetTrackingTime
    \/ EditText
    \/ CadenceAdvance

SpecCadence == Init /\ [][NextCadence]_vars

\* ------------------------------------------- one label held steady ------
\* Frames at fixed times with fixed confidences (percent), default
\* threshold and tracking time; the frame of an instant and the interval
\* callback of that instant run in either order.
ScenarioHorizon == 5000

ScenarioFrames ==
    << [at |-> 0,    label |-> "A", conf |-> 80],
       [at |-> 1000, label |-> "A", conf |-> 90],
       [at |-> 2000, label |-> "A", conf |-> 40],
       [at |-> 3000, label |-> "A", conf |-> 85] >>

FramePending == script \in 1..Len(ScenarioFrames)

InitScenario ==
    /\ now = 0
    /\ inputText = <<>>
    /\ countdownActive = FALSE
    /\ lastAcceptedAction = ""
    /\ signBuffer = <<>>
    /\ countdownStartTime = Null
    /\ trackingTime = DefaultTrackingTime
    /\ countdownStartMs = 0
    /\ countdownDurationMs = DefaultCountdownDurationMs
    /\ countdownTimer = Undefined
    /\ timers = {}
    /\ emitted = NoAction
    /\ tallied = <<>>
    /\ search = "none"
    /\ lastEvent = [kind |-> "init", dwelling |-> FALSE]
    /\ script = 1
    /\ commitLog = NotLogged
    /\ AppSvelte_countdownValue = InitialCountdownValue
    /\ AppSvelte_ticks = 0
    /\ MountedReady

ScriptedFrame ==
    /\ FramePending
    /\ now = ScenarioFrames[script].at
    /\ ClassifyFrame(ScenarioFrames[script].label, ScenarioFrames[script].conf)

ScenarioAdvance ==
    /\ FramePending => now < ScenarioFrames[script].at
    /\ OnCadence(ScenarioHorizon)

NextScenario ==
    \/ ScriptedFrame
    \/ OnInterval
    \/ ScenarioAdvance

SpecScenario == InitScenario /\ [][NextScenario]_vars

\* ------------------------------------------- classifier output ---------
\* labelMap of lib/model.ts; JavaScript index i is position i + 1
labelMap ==
    << "A", "B", "C", "D", "E", "F", "G", "H", "I", "J", "K", "L", "M",
       "N", "O", "P", "Q", "R", "S", "T", "U", "V", "W", "X", "Y", "Z",
       "DELETE", "SPACE" >>

LandmarkCount == 21

\* labelMap[i]: reading past either end of an array yields undefined
LabelAt(i) == IF i + 1 \in DOMAIN labelMap THEN labelMap[i + 1] ELSE "undefined"

NullResult == [ok |-> FALSE, letter |-> "", confidence |-> 0]

\* mutant: the index of the strongest output is not checked against labelMap
predictFromLandmarks_NoIndexCheck(loaded, count, predictedIndex, maxConfidence) ==
    IF ~loaded THEN NullResult
    ELSE IF count # LandmarkCount THEN NullResult
    ELSE [ok |-> TRUE, letter |-> LabelAt(predictedIndex),
          confidence |-> maxConfidence]

\* predictFromLandmarks(landmarks), given whether the model is loaded, the
\* number of landmarks, and the index and value of the strongest output
\* (indexOf yields -1 when the outputs hold NaN)
predictFromLandmarks(loaded, count, predictedIndex, maxConfidence) ==
    IF ~loaded THEN NullResult
    ELSE IF count # LandmarkCount THEN NullResult
    ELSE IF predictedIndex < 0 \/ predictedIndex >= Len(labelMap) THEN NullResult
    ELSE [ok |-> TRUE, letter |-> LabelAt(predictedIndex),
          confidence |-> maxConfidence]

\* indices the strongest output may have: the first and the last of
\* labelMap, and the ones next to either end
ArgmaxIndices == {-1, 0, 1, Len(labelMap) - 1, Len(labelMap)}

ClassifierHorizon == 1500

\* hands.onResults with a hand: the frame goes through predictFromLandmarks
OnResultsLandmarks(predictedIndex, maxConfidence) ==
    LET result == predictFromLandmarks(TRUE, LandmarkCount, predictedIndex, maxConfidence)
    IN  IF result.ok
        THEN /\ Len(signBuffer) < MaxBuf
             /\ ClassifyFrame(result.letter, result.confidence)
        ELSE /\ resetCountdown
             /\ lastEvent' = [kind |-> "nullResult", dwelling |-> countdownActive,
                              index |-> predictedIndex]
             /\ UNCHANGED script
             /\ CountdownValueKept
             /\ NoOutput
             /\ UNCHANGED <<now, inputText, trackingTime>>

OnResultsHand ==
    \E i \in ArgmaxIndices, conf \in Confidences : OnResultsLandmarks(i, conf)

ClassifierAdvance == AdvanceWithin(ClockSteps, ClassifierHorizon)

NextClassifier ==
    \/ OnResultsHand
    \/ OnResultsNoHand
    \/ OnInterval
    \/ SetTrackingTime
    \/ ClassifierAdvance

SpecClassifier == Init /\ [][NextClassifier]_vars

\* ------------------------------------------- executeAction on its own ---
\* executeAction of src/sign-translator/src/App.svelte: SPACE is a character
AppSvelte_executeAction(action, text) ==
    IF action = "DELETE" THEN [text |-> <<>>, search |-> "none"]
    ELSE IF action = "SPACE"
         THEN [text |-> Append(text, " "), search |-> "none"]
         ELSE [text |-> IF action = "" THEN text ELSE Append(text, action),
               search |-> "none"]

\* what the text may hold when an action is executed: committed letters,
\* a space, typed characters
TextChars == Letters \cup {" "} \cup TypedChars

MaxActionText == 3

Texts == UNION {[1..n -> TextChars] : n \in 0..MaxActionText}

InitActions ==
    /\ now = 0
    /\ inputText \in Texts
    /\ countdownActive = FALSE
    /\ lastAcceptedAction = ""
    /\ signBuffer = <<>>
    /\ countdownStartTime = Null
    /\ trackingTime = DefaultTrackingTime
    /\ countdownStartMs = 0
    /\ countdownDurationMs = DefaultCountdownDurationMs
    /\ countdownTimer = Undefined
    /\ timers = {}
    /\ emitted = NoAction
    /\ tallied = <<>>
    /\ search = "none"
    /\ lastEvent = [kind |-> "init", dwelling |-> FALSE]
    /\ script = 0
    /\ commitLog = NotLogged
    /\ AppSvelte_countdownValue = InitialCountdownValue
    /\ AppSvelte_ticks = 0
    /\ MountedReady

\* one call of executeAction, with what it does to the text and the search
Executed(kind, action, done) ==
    /\ Len(done.text) <= MaxActionText
    /\ inputText' = done.text
    /\ search' = done.search
    /\ emitted' = action
    /\ tallied' = <<>>
    /\ Logged(now)
    /\ Event(kind)
    /\ UNCHANGED <<now, countdownActive, lastAcceptedAction, signBuffer,
                   countdownStartTime, trackingTime, countdownStartMs,
                   countdownDurationMs, countdownTimer, timers>>

Execute ==
    \E action \in VoteLabels :
        Executed("execute", action, executeAction(action, inputText))

AppSvelte_Execute ==
    \E action \in VoteLabels :
        Executed("executeAppSvelte", action, AppSvelte_executeAction(action, inputText))

NextActions ==
    \/ Execute
    \/ AppSvelte_Execute

SpecActions == InitActions /\ [][NextActions]_vars

\* ------------------------------------------- a short session -----------
\* every handler of the component, over a span that lets the shortest
\* tracking time elapse
BriefHorizon == 1500

BriefAdvance == AdvanceWithin(ClockSteps, BriefHorizon)

NextBrief ==
    \/ OnResultsPrediction
    \/ OnResultsNoPrediction
    \/ OnResultsNoHand
    \/ OnInterval
    \/ clearInput
    \/ SetTrackingTime
    \/ EditText
    \/ BriefAdvance

SpecBrief == Init /\ [][NextBrief]_vars

\* ------------------------------------------- commits logged -----------
\* the component with its interval timers on their cadence, and the time of
\* the latest call of executeAction kept
InitLogged ==
    /\ now = 0
    /\ inputText = <<>>
    /\ countdownActive = FALSE
    /\ lastAcceptedAction = ""
    /\ signBuffer = <<>>
    /\ countdownStartTime = Null
    /\ trackingTime = DefaultTrackingTime
    /\ countdownStartMs = 0
    /\ countdownDurationMs = DefaultCountdownDurationMs
    /\ countdownTimer = Undefined
    /\ timers = {}
    /\ emitted = NoAction
    /\ tallied = <<>>
    /\ search = "none"
    /\ lastEvent = [kind |-> "init", dwelling |-> FALSE]
    /\ script = 0
    /\ commitLog = <<>>
    /\ AppSvelte_countdownValue = InitialCountdownValue
    /\ AppSvelte_ticks = 0
    /\ MountedReady

SpecLogged == InitLogged /\ [][NextCadence]_vars

\* ------------------------------------------- fair timers ---------------
\* Frames whose commit leaves the text no longer, over a span within which
\* every countdown that is opened or restarted can elapse; interval
\* callbacks that are due are run, and time passes.
LiveHorizon == 1000

LiveLabels == {"SPACE", "DELETE"}

LiveFrame ==
    \E label \in LiveLabels, conf \in Confidences :
        /\ (MeetsThreshold(conf) /\ ~(countdownActive /\ label = lastAcceptedAction))
               => now + trackingTime * 100 <= LiveHorizon
        /\ Classify(label, conf)

\* at the horizon every countdown that is open has elapsed, so the clock
\* stays there while time goes on and the timers keep coming due
LiveAdvance ==
    IF now = LiveHorizon
    THEN AdvanceWithin({0}, LiveHorizon)
    ELSE AdvanceWithin(ClockSteps, LiveHorizon)

NextLive ==
    \/ LiveFrame
    \/ OnResultsNoHand
    \/ OnInterval
    \/ SetTrackingTime
    \/ EditText
    \/ LiveAdvance

SpecLive ==
    /\ Init
    /\ [][NextLive]_vars
    /\ WF_vars(OnInterval)
    /\ WF_vars(LiveAdvance)

\* ------------------------------------------- the one-second countdown --
\* src/sign-translator/src/App.svelte: the interval timer of startCountdown
\* runs every 1000 ms and counts countdownValue down from 3.  resetCountdown,
\* clearInput, the branches of hands.onResults and getMostFrequentAction are
\* the same code as in the polling component.
SecondMs == 1000

SecondsHorizon == 4000

\* mutant: arming a countdown leaves countdownValue where the last one
\* stopped
AppSvelte_ArmCountdown_KeepsValue(action) ==
    /\ CanArm(ClearHeld(timers, countdownTimer))
    /\ countdownActive' = TRUE
    /\ AppSvelte_countdownValue' = AppSvelte_countdownValue
    /\ AppSvelte_ticks' = 0
    /\ lastAcceptedAction' = action
    /\ timers' = setInterval(ClearHeld(timers, countdownTimer))
    /\ countdownTimer' = FreshTimerId(ClearHeld(timers, countdownTimer))
    /\ UNCHANGED <<countdownStartMs, countdownDurationMs>>

\* the part of startCountdown that arms a new countdown
AppSvelte_ArmCountdown(action) ==
    /\ CanArm(ClearHeld(timers, countdownTimer))
    /\ countdownActive' = TRUE
    /\ AppSvelte_countdownValue' = InitialCountdownValue
    /\ AppSvelte_ticks' = 0
    /\ lastAcceptedAction' = action
    /\ timers' = setInterval(ClearHeld(timers, countdownTimer))
    /\ countdownTimer' = FreshTimerId(ClearHeld(timers, countdownTimer))
    /\ UNCHANGED <<countdownStartMs, countdownDurationMs>>

\* startCountdown(action, currentConfidence)
AppSvelte_startCountdown(action, currentConfidence) ==
    IF countdownActive /\ action = lastAcceptedAction
    THEN /\ signBuffer' = PushedBuffer(countdownActive, signBuffer, action)
         /\ CountdownValueKept
         /\ UNCHANGED <<countdownActive, lastAcceptedAction, countdownStartTime,
                        countdownStartMs, countdownDurationMs,
                        countdownTimer, timers>>
    ELSE IF currentConfidence >= bufferThreshold
    THEN /\ signBuffer' = PushedBuffer(countdownActive, signBuffer, action)
         /\ countdownStartTime' = IF ~countdownActive THEN now ELSE countdownStartTime
         /\ AppSvelte_ArmCountdown(action)
    ELSE IF ~countdownActive
    THEN resetCountdown /\ CountdownValueKept
    ELSE /\ signBuffer' = PushedBuffer(countdownActive, signBuffer, action)
         /\ CountdownValueKept
         /\ UNCHANGED <<countdownActive, lastAcceptedAction, countdownStartTime,
                        countdownStartMs, countdownDurationMs,
                        countdownTimer, timers>>

\* hands.onResults with a prediction
AppSvelte_OnResultsPrediction ==
    \E label \in Labels, conf \in Confidences :
        /\ Len(signBuffer) < MaxBuf
        /\ IF conf >= bufferThreshold
           THEN AppSvelte_startCountdown(label, conf)
           ELSE BelowThreshold(label) /\ CountdownValueKept
        /\ lastEvent' = [kind |-> IF conf >= bufferThreshold THEN "high" ELSE "low",
                         dwelling |-> countdownActive,
                         label |-> label, conf |-> conf,
                         leading |-> lastAcceptedAction]
        /\ UNCHANGED script
        /\ NoOutput
        /\ UNCHANGED <<now, inputText, trackingTime>>

\* the interval callback of startCountdown, run by timer t
AppSvelte_Tick(t) ==
    /\ t.pending
    /\ LET value == AppSvelte_countdownValue - 1
           mostFrequentAction == getMostFrequentAction(signBuffer, lastAcceptedAction)
           done == AppSvelte_executeAction(mostFrequentAction, inputText)
           fired == (timers \ {t}) \cup {[id |-> t.id, pending |-> FALSE]}
       IN  /\ AppSvelte_countdownValue' = value
           /\ AppSvelte_ticks' = AppSvelte_ticks + 1
           /\ IF value <= 0
              THEN /\ emitted' = mostFrequentAction
                   /\ tallied' = signBuffer
                   /\ search' = done.search
                   /\ Logged(now)
                   /\ Len(done.text) <= MaxText
                   /\ inputText' = done.text
                   /\ CloseWindow(fired)
              ELSE /\ NoOutput
                   /\ timers' = fired
                   /\ UNCHANGED <<inputText, signBuffer, countdownActive,
                                  countdownStartTime>>
    /\ lastEvent' = [kind |-> "second", dwelling |-> countdownActive]
    /\ UNCHANGED script
    /\ UNCHANGED <<now, lastAcceptedAction, trackingTime, countdownStartMs,
                   countdownDurationMs, countdownTimer>>

AppSvelte_OnInterval == \E t \in timers : AppSvelte_Tick(t)

\* the clock moves by the period of the timer
SecondsAdvance == AdvanceWithin({SecondMs}, SecondsHorizon)

NextSeconds ==
    \/ AppSvelte_OnResultsPrediction
    \/ OnResultsNoPrediction
    \/ OnResultsNoHand
    \/ AppSvelte_OnInterval
    \/ clearInput
    \/ SecondsAdvance

SpecSeconds == Init /\ [][NextSeconds]_vars


\* ------------------------------------------- predictFromLandmarks ------
\* The whole of predictFromLandmarks, from the outputs of the model to its
\* result.  Confidences are in percent; NaN and -Infinity are numbers no
\* confidence takes.
NaN == -2

NegInfinity == -3

\* Math.max(...values)
MathMax(values) ==
    IF values = <<>> THEN NegInfinity
    ELSE IF \E k \in DOMAIN values : values[k] = NaN THEN NaN
    ELSE CHOOSE v \in {values[k] : k \in DOMAIN values} :
             \A k \in DOMAIN values : values[k] <= v

\* a === b
StrictEquals(a, b) == a # NaN /\ b # NaN /\ a = b

\* mutant: the last position holding the value
indexOf_Last(values, v) ==
    IF \E k \in DOMAIN values : StrictEquals(values[k], v)
    THEN (CHOOSE k \in DOMAIN values :
              /\ StrictEquals(values[k], v)
              /\ \A j \in DOMAIN values : StrictEquals(values[j], v) => j <= k) - 1
    ELSE -1

\* values.indexOf(v): the first position holding the value, or -1
indexOf(values, v) ==
    IF \E k \in DOMAIN values : StrictEquals(values[k], v)
    THEN (CHOOSE k \in DOMAIN values :
              /\ StrictEquals(values[k], v)
              /\ \A j \in DOMAIN values : StrictEquals(values[j], v) => k <= j) - 1
    ELSE -1

\* the largest number of classes a model puts out
MaxClasses == 29

FloorConfidence == 10

OutputSizes == {0, Len(labelMap), MaxClasses}

PeakPositions == {1, 2, Len(labelMap), MaxClasses}

PeakConfidences == {FloorConfidence, 60, 90, NaN}

\* outputs of n classes, all at the floor except at positions i and j
Peaked(n, i, ci, j, cj) ==
    [k \in 1..n |-> IF k = i THEN ci ELSE IF k = j THEN cj ELSE FloorConfidence]

\* one run of the model: model.predict or a statement around it throws, or
\* it yields the confidences
ModelRuns ==
    {[throws |-> TRUE, confidences |-> <<>>]} \cup
    {[throws |-> FALSE, confidences |-> Peaked(n, i, ci, j, cj)] :
        n \in OutputSizes, i \in PeakPositions, j \in PeakPositions,
        ci \in PeakConfidences, cj \in PeakConfidences}

\* landmarks.length; Null for a list that is null or undefined
LandmarkCounts == {Null, 0, LandmarkCount - 1, LandmarkCount, LandmarkCount + 1}

\* predictFromLandmarks(landmarks) with its try and catch: what it returns
\* and whether an exception leaves it
PredictionOf(loaded, count, run) ==
    IF ~loaded
    THEN [threw |-> FALSE, value |-> NullResult]
    ELSE IF count = Null \/ count # LandmarkCount
    THEN [threw |-> FALSE, value |-> NullResult]
    ELSE IF run.throws
    THEN [threw |-> FALSE, value |-> NullResult]
    ELSE [threw |-> FALSE,
          value |-> predictFromLandmarks(loaded, count,
                        indexOf(run.confidences, MathMax(run.confidences)),
                        MathMax(run.confidences))]

\* one call of predictFromLandmarks
Predict ==
    /\ \E loaded \in BOOLEAN, count \in LandmarkCounts, run \in ModelRuns :
           lastEvent' = [kind |-> "predict", dwelling |-> countdownActive,
                         loaded |-> loaded, count |-> count, run |-> run,
                         result |-> PredictionOf(loaded, count, run)]
    /\ UNCHANGED script
    /\ CountdownValueKept
    /\ NoOutput
    /\ UNCHANGED <<now, inputText, countdownActive, lastAcceptedAction,
                   signBuffer, countdownStartTime, trackingTime,
                   countdownStartMs, countdownDurationMs, countdownTimer,
                   timers>>

SpecPredict == Init /\ [][Predict]_vars


\* ------------------------------------------- set-up --------------------
\* onMount of the component and loadModel of lib/model.ts, statement by
\* statement.  Each step that can fail draws its outcome; an error thrown by
\* a library carries a message that may be empty.
Causes == {"", "NotAllowedError"}

\* message || fallback
MessageOr(message, fallback) == IF message = "" THEN fallback ELSE message

\* a step of the set-up leaves the countdown, the text and the clock alone
SetupStep(kind) ==
    /\ Event(kind)
    /\ Quiet
    /\ UNCHANGED <<now, inputText, countdownActive, lastAcceptedAction,
                   signBuffer, countdownStartTime, trackingTime,
                   countdownStartMs, countdownDurationMs, countdownTimer,
                   timers>>

Tried(step, ok) == attempts' = Append(attempts, Attempt(step, ok))

\* the outer catch of onMount
SetupFails(message) ==
    /\ errorMessage' = MessageOr(message, "Unknown setup error")
    /\ setupStatus' = "failed"
    /\ pc' = "done"

\* the catch of loadModel rethrows, the promise is rejected, and the catch
\* around await loadModel() in onMount rethrows into the outer catch
LoadModelRejects(cause) ==
    /\ loadModelPromise' = "rejected"
    /\ SetupFails("Model loading failed: " \o ("Model loading failed: " \o cause))

\* onMount starts: setupStatus = 'loading'
OnMount ==
    /\ pc = "mount"
    /\ setupStatus' = "loading"
    /\ pc' = "libraries"
    /\ UNCHANGED <<errorMessage, model, isModelLoaded, loadModelPromise, attempts>>
    /\ SetupStep("mount")

\* if (!window.Hands || !window.Camera) throw; otherwise loadModel() is called
CheckLibraries ==
    /\ pc = "libraries"
    /\ \E found \in BOOLEAN :
           /\ Tried("libraries", found)
           /\ IF found
              THEN /\ pc' = "tfReady"
                   /\ loadModelPromise' = "pending"
                   /\ UNCHANGED <<setupStatus, errorMessage>>
              ELSE /\ SetupFails("MediaPipe libraries not found. Make sure Hands and Camera are loaded from CDN.")
                   /\ UNCHANGED loadModelPromise
    /\ UNCHANGED <<model, isModelLoaded>>
    /\ SetupStep("libraries")

\* await tf.ready()
TfReady ==
    /\ pc = "tfReady"
    /\ \E ok \in BOOLEAN, cause \in Causes :
           /\ Tried("tfReady", ok)
           /\ IF ok
              THEN /\ pc' = "GraphModel"
                   /\ UNCHANGED <<setupStatus, errorMessage, loadModelPromise>>
              ELSE LoadModelRejects(cause)
    /\ UNCHANGED <<model, isModelLoaded>>
    /\ SetupStep("tfReady")

\* mutant: the model counts as loaded as soon as it is a GraphModel
LoadGraphModel_MarksLoaded ==
    /\ pc = "GraphModel"
    /\ \E ok \in BOOLEAN :
           /\ Tried("GraphModel", ok)
           /\ IF ok
              THEN model' = "GraphModel" /\ pc' = "test" /\ isModelLoaded' = TRUE
              ELSE pc' = "LayersModel" /\ UNCHANGED <<model, isModelLoaded>>
    /\ UNCHANGED <<setupStatus, errorMessage, loadModelPromise>>
    /\ SetupStep("GraphModel")

\* model = await tf.loadGraphModel(modelUrl)
LoadGraphModel ==
    /\ pc = "GraphModel"
    /\ \E ok \in BOOLEAN :
           /\ Tried("GraphModel", ok)
           /\ IF ok
              THEN model' = "GraphModel" /\ pc' = "test"
              ELSE pc' = "LayersModel" /\ UNCHANGED model
    /\ UNCHANGED <<setupStatus, errorMessage, isModelLoaded, loadModelPromise>>
    /\ SetupStep("GraphModel")

\* model = await tf.loadLayersModel(modelUrl)
LoadLayersModel ==
    /\ pc = "LayersModel"
    /\ \E ok \in BOOLEAN :
           /\ Tried("LayersModel", ok)
           /\ IF ok
              THEN model' = "LayersModel" /\ pc' = "test"
              ELSE pc' = "fallback" /\ UNCHANGED model
    /\ UNCHANGED <<setupStatus, errorMessage, isModelLoaded, loadModelPromise>>
    /\ SetupStep("LayersModel")

\* model = createFallbackModel()
CreateFallbackModel ==
    /\ pc = "fallback"
    /\ \E ok \in BOOLEAN :
           /\ Tried("fallback", ok)
           /\ IF ok
              THEN /\ model' = "fallback"
                   /\ pc' = "test"
                   /\ UNCHANGED <<setupStatus, errorMessage, loadModelPromise>>
              ELSE /\ LoadModelRejects("All model loading attempts failed")
                   /\ UNCHANGED model
    /\ UNCHANGED isModelLoaded
    /\ SetupStep("fallback")

\* the test prediction on dummy data, then isModelLoaded = true
TestPrediction ==
    /\ pc = "test"
    /\ \E ok \in BOOLEAN, cause \in Causes :
           /\ Tried("test", ok)
           /\ IF ok
              THEN /\ isModelLoaded' = TRUE
                   /\ loadModelPromise' = "fulfilled"
                   /\ pc' = "hands"
                   /\ UNCHANGED <<setupStatus, errorMessage>>
              ELSE /\ LoadModelRejects(cause)
                   /\ UNCHANGED isModelLoaded
    /\ UNCHANGED model
    /\ SetupStep("test")

\* mutant: the status is 'ready' once the camera object is created
InitHands_Ready ==
    /\ pc = "hands"
    /\ \E ok \in BOOLEAN, webcam \in BOOLEAN, cause \in Causes :
           /\ Tried("hands", ok /\ webcam)
           /\ IF ok /\ webcam
              THEN /\ pc' = "camera"
                   /\ setupStatus' = "ready"
                   /\ UNCHANGED errorMessage
              ELSE SetupFails("MediaPipe setup failed: " \o
                              (IF ok THEN "Webcam element not found in the DOM"
                                     ELSE cause))
    /\ UNCHANGED <<model, isModelLoaded, loadModelPromise>>
    /\ SetupStep("hands")

\* new window.Hands, setOptions, onResults, the webcam check, new
\* window.Camera
InitHands ==
    /\ pc = "hands"
    /\ \E ok \in BOOLEAN, webcam \in BOOLEAN, cause \in Causes :
           /\ Tried("hands", ok /\ webcam)
           /\ IF ok /\ webcam
              THEN /\ pc' = "camera"
                   /\ UNCHANGED <<setupStatus, errorMessage>>
              ELSE SetupFails("MediaPipe setup failed: " \o
                              (IF ok THEN "Webcam element not found in the DOM"
                                     ELSE cause))
    /\ UNCHANGED <<model, isModelLoaded, loadModelPromise>>
    /\ SetupStep("hands")

\* await camera.start(), then setupStatus = 'ready'
CameraStart ==
    /\ pc = "camera"
    /\ \E ok \in BOOLEAN, cause \in Causes :
           /\ Tried("camera", ok)
           /\ IF ok
              THEN /\ setupStatus' = "ready"
                   /\ pc' = "done"
                   /\ UNCHANGED errorMessage
              ELSE SetupFails("MediaPipe setup failed: " \o cause)
    /\ UNCHANGED <<model, isModelLoaded, loadModelPromise>>
    /\ SetupStep("camera")

\* the text, the buttons and the slider are on the page unless the set-up
\* has failed
PageShown == setupStatus # "failed"

SetupClearInput == PageShown /\ clearInput

SetupEditText == PageShown /\ EditText

SetupSetTrackingTime == PageShown /\ SetTrackingTime

\* frames reach hands.onResults once the camera has started
CameraRunning == setupStatus = "ready"

SetupOnResultsPrediction == CameraRunning /\ OnResultsPrediction

SetupOnResultsNoHand == CameraRunning /\ OnResultsNoHand

SetupHorizon == 500

SetupAdvance == AdvanceWithin(ClockSteps, SetupHorizon)

InitSetup ==
    /\ now = 0
    /\ inputText = <<>>
    /\ countdownActive = FALSE
    /\ lastAcceptedAction = ""
    /\ signBuffer = <<>>
    /\ countdownStartTime = Null
    /\ trackingTime = DefaultTrackingTime
    /\ countdownStartMs = 0
    /\ countdownDurationMs = DefaultCountdownDurationMs
    /\ countdownTimer = Undefined
    /\ timers = {}
    /\ emitted = NoAction
    /\ tallied = <<>>
    /\ search = "none"
    /\ lastEvent = [kind |-> "init", dwelling |-> FALSE]
    /\ script = 0
    /\ commitLog = NotLogged
    /\ AppSvelte_countdownValue = InitialCountdownValue
    /\ AppSvelte_ticks = 0
    /\ setupStatus = "initializing"
    /\ errorMessage = ""
    /\ model = NoModel
    /\ isModelLoaded = FALSE
    /\ loadModelPromise = "none"
    /\ pc = "mount"
    /\ attempts = <<>>

NextSetup ==
    \/ OnMount
    \/ CheckLibraries
    \/ TfReady
    \/ LoadGraphModel
    \/ LoadLayersModel
    \/ CreateFallbackModel
    \/ TestPrediction
    \/ InitHands
    \/ CameraStart
    \/ SetupClearInput
    \/ SetupEditText
    \/ SetupSetTrackingTime
    \/ SetupOnResultsPrediction
    \/ SetupOnResultsNoHand
    \/ OnInterval
    \/ SetupAdvance

SpecSetup == InitSetup /\ [][NextSetup]_vars


\* ------------------------------------------------------- properties -----
FirstIndex(buf, a) ==
    CHOOSE i \in 1..Len(buf) : buf[i] = a /\ \A j \in 1..(i - 1) : buf[j] # a

DwellElapsed == now - countdownStartMs >= countdownDurationMs

\* a countdown that has never been restarted and holds votes for its
\* leading label only
SteadyWindow ==
    /\ countdownActive
    /\ countdownStartTime = countdownStartMs
    /\ \A i \in 1..Len(signBuffer) : signBuffer[i] = lastAcceptedAction

\* this step is a high-confidence frame that restarts the open countdown
RestartStep ==
    /\ countdownActive
    /\ lastEvent'.kind = "high"
    /\ lastAcceptedAction' # lastAcceptedAction

\* C1: a countdown fed one label L only emits exactly one action, L, no
\* earlier than the dwell duration after it opened: the step that emits
\* finds the dwell elapsed since the opening, emits L and closes the
\* countdown, so that nothing more is emitted for it.
C1_SteadyLabelEmitsOnce ==
    [][(SteadyWindow /\ emitted' # NoAction) =>
          /\ emitted' = lastAcceptedAction
          /\ now - countdownStartTime >= countdownDurationMs
          /\ ~countdownActive'
          /\ timers' = {}]_vars

\* C2: between handlers, signBuffer is empty exactly when no countdown is
\* active.
C2_BufferEmptyIffIdle == (signBuffer = <<>>) <=> ~countdownActive

C2_Witness ==
    /\ countdownActive
    /\ Len(signBuffer) = 2
    /\ lastEvent.kind = "low"

\* C3: a high-confidence frame with a label other than the leading one
\* clears the buffer, which then holds the new label alone.
C3_RestartClearsBuffer ==
    [][RestartStep => signBuffer' = <<lastAcceptedAction'>>]_vars

\* C4: a restart sets the origin of the countdown to the time of the
\* switch, takes the full dwell duration and makes the new label the
\* leading one; and nothing is emitted before the dwell duration has
\* passed since the origin, that is since the last switch.
C4_RestartResetsDwell ==
    [][/\ RestartStep =>
             /\ countdownStartMs' = now
             /\ countdownDurationMs' = trackingTime * 100
             /\ lastAcceptedAction' = signBuffer'[Len(signBuffer')]
             /\ countdownActive'
       /\ emitted' # NoAction => now - countdownStartMs >= countdownDurationMs]_vars

\* opened by A at 0, switched to B at 500, committed at 3500
C4_Witness ==
    /\ emitted # NoAction
    /\ tallied = <<"A", "B">>
    /\ lastAcceptedAction = "B"
    /\ countdownStartMs = 500
    /\ countdownDurationMs = 3000
    /\ now = 3500

\* C5: the action committed from a buffer has the maximal count in it, and
\* of the labels with that count it is the one that occurs first.
C5_MajorityEarliestOccurrence ==
    emitted # NoAction =>
        /\ emitted \in TiedLabels(tallied)
        /\ \A m \in TiedLabels(tallied) :
              FirstIndex(tallied, emitted) <= FirstIndex(tallied, m)

C5_Witness == tallied = <<"A", "B", "A", "B">> /\ emitted = "A"

\* C6 as claimed: of the labels tied for the maximal count, the committed
\* one is the one whose running count reaches that count first.
C6_FirstToReachMaxWins ==
    emitted # NoAction =>
        \A m \in TiedLabels(tallied) :
            ReachIndex(tallied, emitted, MaxCount(tallied))
                <= ReachIndex(tallied, m, MaxCount(tallied))

\* C6 amended: of the labels tied for the maximal count, the committed one
\* occurs in the buffer before every other, also when another of them
\* reaches the maximal count first.
C6_EarliestOccurrenceWinsTie ==
    emitted # NoAction =>
        \A m \in TiedLabels(tallied) \ {emitted} :
            /\ FirstIndex(tallied, emitted) < FirstIndex(tallied, m)
            /\ CountOf(tallied, emitted) = CountOf(tallied, m)

\* B reaches two votes first, A occurs first
C6_Witness == tallied = <<"A", "B", "B", "A">> /\ emitted = "A"

\* C7: a frame without a classification that finds a countdown active
\* clears the buffer, cancels the interval timer, leaves no countdown
\* active and emits nothing; with no timer left, no later poll can emit
\* for the aborted countdown.
C7_NoClassificationAborts ==
    [][(countdownActive /\ lastEvent'.kind \in {"noHand", "noPrediction"}) =>
          /\ signBuffer' = <<>>
          /\ timers' = {}
          /\ countdownTimer' = Undefined
          /\ ~countdownActive'
          /\ emitted' = NoAction
          /\ inputText' = inputText]_vars

C7_Witness ==
    /\ lastEvent = [kind |-> "noHand", dwelling |-> TRUE]
    /\ ~countdownActive
    /\ signBuffer = <<>>
    /\ timers = {}

\* C8 as claimed: once the dwell of the active countdown has elapsed, no
\* frame is pushed into it (the tick that finds it elapsed commits it).
C8_NoPushAfterDwell ==
    [][(countdownActive /\ DwellElapsed) =>
          ~(countdownActive' /\ Len(signBuffer') > Len(signBuffer))]_vars

\* C8 amended: the timer is looked at by the interval callback only.  A
\* poll that finds the dwell elapsed runs the commit, emitting the majority
\* of the buffer; a poll that finds it not elapsed emits nothing; a frame
\* never emits, and one that arrives after the dwell has elapsed but
\* before the poll is pushed into the buffer like any other.
C8_OnlyPollCommits ==
    [][/\ (lastEvent'.kind = "poll" /\ DwellElapsed) =>
             emitted' = getMostFrequentAction(signBuffer, lastAcceptedAction)
       /\ (lastEvent'.kind = "poll" /\ ~DwellElapsed) => emitted' = NoAction
       /\ (lastEvent'.kind \in {"high", "low"}) =>
             /\ emitted' = NoAction
             /\ countdownActive => /\ countdownActive'
                                   /\ Len(signBuffer') = Len(signBuffer) + 1]_vars

\* a frame was pushed into a countdown whose dwell had already elapsed
C8_Witness ==
    /\ lastEvent.kind = "low"
    /\ lastEvent.dwelling
    /\ countdownActive
    /\ DwellElapsed
    /\ Len(signBuffer) = 2

\* C9: a step that emits is a poll, emits the majority of the buffer as it
\* stands, and in the same step empties the buffer, cancels the timer and
\* leaves no countdown active.
C9_CommitEmitsAndCloses ==
    [][emitted' # NoAction =>
          /\ lastEvent'.kind = "poll"
          /\ emitted' = getMostFrequentAction(signBuffer, lastAcceptedAction)
          /\ signBuffer' = <<>>
          /\ timers' = {}
          /\ ~countdownActive']_vars

\* C10: a low-confidence frame that finds a countdown active appends one
\* vote and changes nothing else.
C10_LowConfidenceOnlyPushes ==
    [][(countdownActive /\ lastEvent'.kind = "low") =>
          /\ \E label \in Labels : signBuffer' = Append(signBuffer, label)
          /\ UNCHANGED <<countdownActive, lastAcceptedAction, countdownStartTime,
                         countdownStartMs, countdownDurationMs, countdownTimer,
                         timers, inputText, trackingTime, now>>
          /\ emitted' = NoAction]_vars

C10_Witness ==
    /\ lastEvent.kind = "low"
    /\ lastEvent.dwelling
    /\ countdownActive
    /\ signBuffer = <<"A", "B">>
    /\ lastAcceptedAction = "A"
    /\ timers # {}

\* ------------------------------------------- frames by their input ------
\* the step is a frame with a prediction whose confidence is at least, or
\* below, the threshold
HighFrame == lastEvent'.kind \in {"high", "low"} /\ lastEvent'.conf >= bufferThreshold

LowFrame == lastEvent'.kind \in {"high", "low"} /\ lastEvent'.conf < bufferThreshold

\* the one interval timer a step leaves armed, held by countdownTimer
OneTimerArmed ==
    /\ countdownTimer' \in TimerIds
    /\ \E t \in timers' : timers' = {t} /\ t.id = countdownTimer'

\* C11: a frame that finds a countdown active, is confident and carries the
\* leading label appends exactly one vote and leaves the origin, the
\* duration, the leading label and the armed timer as they were.
C11_SameLabelOnlyVotes ==
    [][(countdownActive /\ HighFrame /\ lastEvent'.label = lastAcceptedAction) =>
          /\ signBuffer' = Append(signBuffer, lastAcceptedAction)
          /\ UNCHANGED <<countdownActive, lastAcceptedAction, countdownStartTime,
                         countdownStartMs, countdownDurationMs, countdownTimer,
                         timers>>]_vars

C11_Witness ==
    /\ lastEvent.kind = "high"
    /\ lastEvent.dwelling
    /\ lastEvent.label = lastEvent.leading
    /\ signBuffer = <<"A", "A">>
    /\ lastAcceptedAction = "A"
    /\ countdownActive
    /\ countdownStartMs < now
    /\ timers # {}

C13_LowConfidenceNeverOpens ==
    [][/\ (~countdownActive /\ (lastEvent'.kind \in {"noHand", "noPrediction"} \/ LowFrame)) =>
             (~countdownActive' /\ signBuffer' = <<>> /\ timers' = {})
       /\ LowFrame =>
             /\ countdownActive' = countdownActive
             /\ timers' = timers
             /\ UNCHANGED <<countdownStartMs, countdownDurationMs>>]_vars

C13_Witness ==
    /\ lastEvent.kind = "low"
    /\ ~lastEvent.dwelling
    /\ lastEvent.leading # ""
    /\ ~countdownActive
    /\ signBuffer = <<>>
    /\ timers = {}

\* C16: countdownActive is either true or false, and an interval timer is
\* live exactly when it is true.
C16_TimerArmedIffDwelling ==
    /\ countdownActive \in BOOLEAN
    /\ countdownActive <=> timers # {}

C16_Witness ==
    /\ lastEvent = [kind |-> "poll", dwelling |-> TRUE]
    /\ emitted # NoAction
    /\ ~countdownActive
    /\ timers = {}

\* C17: while an interval timer is live the buffer is not empty, and the
\* buffer a commit took its majority from was not empty.
C17_PollNeverFindsEmptyBuffer ==
    /\ timers # {} => signBuffer # <<>>
    /\ emitted # NoAction => tallied # <<>>

C17_Witness ==
    /\ lastEvent.kind = "poll"
    /\ emitted = "A"
    /\ tallied = <<"A", "B">>

\* C15: what a step makes of a state with no countdown active is a function
\* of its input, the clock and the tracking time alone: a confident frame
\* overwrites lastAcceptedAction, the origin, the duration and the timer
\* handle with values that do not depend on what they held, every other
\* step leaves no countdown active, and no step emits. What earlier
\* countdowns left in those variables is never read.
C15_LeftoversNeverRead ==
    [][~countdownActive =>
          /\ emitted' = NoAction
          /\ search' = "none"
          /\ IF HighFrame
             THEN /\ countdownActive'
                  /\ signBuffer' = <<lastEvent'.label>>
                  /\ lastAcceptedAction' = lastEvent'.label
                  /\ countdownStartMs' = now
                  /\ countdownStartTime' = now
                  /\ countdownDurationMs' = trackingTime * 100
                  /\ countdownTimer' = FreshTimerId({})
                  /\ timers' = setInterval({})
             ELSE /\ ~countdownActive'
                  /\ signBuffer' = <<>>
                  /\ timers' = {}]_vars

C15_Witness ==
    /\ lastEvent.kind = "high"
    /\ ~lastEvent.dwelling
    /\ lastEvent.leading = "A"
    /\ lastEvent.label = "A"
    /\ inputText = <<"A">>
    /\ countdownActive
    /\ signBuffer = <<"A">>
    /\ lastAcceptedAction = "A"
    /\ countdownStartMs = now
    /\ countdownStartMs > 0

\* C14: in the scenario every emission is of A, at 3000 ms or later, and
\* taken from a buffer of four A votes, in whichever order the frame and
\* the interval callback of t = 3000 run.
C14_FourVotesInEveryOrder ==
    [][emitted' # NoAction =>
          /\ emitted' = "A"
          /\ now' >= 3000
          /\ tallied' = <<"A", "A", "A", "A">>]_vars

\* C14 as the code has it: every emission is of A, at 3000 ms or later, by
\* the countdown opened at t = 0, which it closes; the buffer holds four A
\* votes when the frame of t = 3000 ran before the callback and three when
\* the callback ran first; and once the clock has passed 3000 ms the text
\* holds that one A.
C14_OneCommitThreeOrFourVotes ==
    [][/\ emitted' # NoAction =>
             /\ emitted' = "A"
             /\ now' >= 3000
             /\ countdownStartMs = 0
             /\ ~countdownActive'
             /\ tallied' = IF FramePending THEN <<"A", "A", "A">>
                                           ELSE <<"A", "A", "A", "A">>
       /\ now' > 3000 => inputText' = <<"A">>]_vars

C14_Witness ==
    /\ now = 3000
    /\ lastEvent.kind = "high"
    /\ ~lastEvent.dwelling
    /\ ~FramePending
    /\ inputText = <<"A">>
    /\ countdownActive
    /\ signBuffer = <<"A">>
    /\ countdownStartMs = 3000

\* C19: with the interval firing every PollIntervalMs, every emission comes
\* at a time whose distance from the origin of the countdown is at least
\* the duration and at most the duration plus one interval.
C19_CommitWithinOneInterval ==
    [][emitted' # NoAction =>
          /\ now' - countdownStartMs >= countdownDurationMs
          /\ now' - countdownStartMs <= countdownDurationMs + PollIntervalMs]_vars

\* C20: whatever the clock reads, a reading earlier than the origin
\* included, the remaining time an interval callback computes is not
\* negative, and every emission is made by an interval callback that reads
\* a clock at least the duration past the origin.
C20_CommitOnlyWhenElapsed ==
    [][/\ lastEvent'.kind = "poll" =>
             Remaining(now, countdownStartMs, countdownDurationMs) >= 0
       /\ emitted' # NoAction =>
             /\ lastEvent'.kind = "poll"
             /\ now - countdownStartMs >= countdownDurationMs]_vars

C20_Witness ==
    /\ lastEvent = [kind |-> "poll", dwelling |-> TRUE]
    /\ now < countdownStartMs
    /\ countdownActive
    /\ emitted = NoAction
    /\ Remaining(now, countdownStartMs, countdownDurationMs) > countdownDurationMs

\* ------------------------------------------- alphabet and actions -------
Alphabet == {labelMap[k] : k \in DOMAIN labelMap}

\* C21: only labels of the 28-symbol alphabet are ever in the buffer,
\* leading a countdown or emitted; and a frame whose strongest output has an
\* index outside the alphabet ends like a frame without classification:
\* no countdown active, the buffer empty, no timer, nothing emitted, the
\* text as it was.
C21_OutOfAlphabetIsNoClassification ==
    [][/\ \A k \in 1..Len(signBuffer') : signBuffer'[k] \in Alphabet
       /\ lastAcceptedAction' \in Alphabet \cup {""}
       /\ emitted' \in Alphabet \cup {NoAction}
       /\ lastEvent'.kind \in {"high", "low"} => lastEvent'.label \in Alphabet
       /\ lastEvent'.kind = "nullResult" =>
             /\ lastEvent'.index \notin 0..(Len(labelMap) - 1)
             /\ ~countdownActive'
             /\ signBuffer' = <<>>
             /\ timers' = {}
             /\ emitted' = NoAction
             /\ inputText' = inputText]_vars

C21_Witness ==
    /\ lastEvent = [kind |-> "nullResult", dwelling |-> TRUE, index |-> Len(labelMap)]
    /\ ~countdownActive
    /\ signBuffer = <<>>
    /\ timers = {}

\* C22: an executed letter is appended to the end of the text, DELETE
\* leaves the text empty, and SPACE opens the search and leaves the text as
\* it was.
C22_StaticActionMapping ==
    [][emitted' # NoAction =>
          IF emitted' = "DELETE" THEN inputText' = <<>>
          ELSE IF emitted' = "SPACE"
               THEN search' = "opened" /\ inputText' = inputText
               ELSE inputText' = Append(inputText, emitted')]_vars

\* C23: clearInput that finds a countdown active emits nothing and leaves
\* the text empty, the buffer empty, no timer live and no countdown active.
C23_ClearDestroysWindow ==
    [][(countdownActive /\ lastEvent'.kind = "clear") =>
          /\ emitted' = NoAction
          /\ search' = "none"
          /\ inputText' = <<>>
          /\ signBuffer' = <<>>
          /\ timers' = {}
          /\ ~countdownActive']_vars

C23_Witness ==
    /\ lastEvent = [kind |-> "clear", dwelling |-> TRUE]
    /\ inputText = <<>>
    /\ signBuffer = <<>>
    /\ timers = {}
    /\ ~countdownActive
    /\ now > 0

\* C24: only the slider changes trackingTime: frames, interval callbacks
\* (committing or not), aborts, clearInput, typing and the passing of time
\* leave it as it was.  (bufferThreshold is assigned nowhere in the source
\* and is a constant of the model.)
C24_ConfigurationNotMutated ==
    [][lastEvent'.kind # "slider" => trackingTime' = trackingTime]_vars

C24_Witness ==
    /\ lastEvent = [kind |-> "clear", dwelling |-> TRUE]
    /\ trackingTime # DefaultTrackingTime

\* C25: when one label has strictly more votes in the buffer than every
\* other, a commit emits that label, whether or not it is
\* lastAcceptedAction; a countdown opened by A that holds more votes for B
\* commits B.
C25_MajorityNotLeadingLabel ==
    [][emitted' # NoAction =>
          \A b \in VoteLabels :
              (\A x \in VoteLabels \ {b} : CountOf(signBuffer, b) > CountOf(signBuffer, x))
                  => emitted' = b]_vars

C25_Witness ==
    /\ lastEvent.kind = "poll"
    /\ lastAcceptedAction = "A"
    /\ tallied = <<"A", "B", "B">>
    /\ emitted = "B"
    /\ inputText = <<"B">>

\* C26: an interval callback that finds the dwell elapsed leaves no
\* countdown active, the buffer empty and no timer live, whether or not
\* executeAction threw.
C26_WindowClosedEvenOnThrow ==
    [][(countdownActive /\ DwellElapsed /\ lastEvent'.kind = "poll") =>
          /\ ~countdownActive'
          /\ signBuffer' = <<>>
          /\ timers' = {}]_vars

\* C27: at most one interval timer is live, it is the one whose handle
\* countdownTimer holds, and none is live when no countdown is active; so
\* an emission is always made by the timer of the countdown that is open.
C27_AtMostOneLiveTimer ==
    /\ \A t1, t2 \in timers : t1.id = t2.id
    /\ \A t \in timers : t.id = countdownTimer
    /\ ~countdownActive => timers = {}

C27_Witness ==
    /\ lastEvent.kind = "high"
    /\ lastEvent.dwelling
    /\ lastEvent.label # lastEvent.leading
    /\ countdownActive
    /\ \E t \in timers : timers = {t} /\ t.id = countdownTimer /\ ~t.pending
    /\ now > 0

\* C28: the duration of a countdown is trackingTime * 1000 as it was when
\* the countdown was opened or last restarted: an opening or restarting
\* frame stores it, the slider changes neither the stored duration nor the
\* origin, no other step changes the stored duration, and an interval
\* callback commits exactly when the clock is the stored duration past the
\* origin, whatever trackingTime has become.
C28_DurationCapturedAtOpen ==
    [][/\ (HighFrame /\ (~countdownActive \/ lastEvent'.label # lastAcceptedAction)) =>
             countdownDurationMs' = trackingTime * 100
       /\ lastEvent'.kind = "slider" =>
             UNCHANGED <<countdownDurationMs, countdownStartMs, countdownActive, timers>>
       /\ countdownDurationMs' # countdownDurationMs => lastEvent'.kind = "high"
       /\ (countdownActive /\ lastEvent'.kind = "poll") =>
             (emitted' # NoAction <=> now - countdownStartMs >= countdownDurationMs)]_vars

C28_Witness ==
    /\ lastEvent.kind = "poll"
    /\ emitted # NoAction
    /\ countdownDurationMs # trackingTime * 100
    /\ now - countdownStartMs >= countdownDurationMs
    /\ now - countdownStartMs < trackingTime * 100

\* C29: an action is emitted no sooner after the one before it than the
\* duration of the countdown that emits it.
C29_EmissionsOneDwellApart ==
    [][(emitted' # NoAction /\ commitLog # <<>> /\ commitLog # NotLogged) =>
          now' - commitLog[1] >= countdownDurationMs]_vars

\* C30: with due interval callbacks run and time passing, if from some
\* point on no confident frame with another label restarts the countdown,
\* every countdown that is active is eventually not active.
C30_WindowEventuallyCloses ==
    (<>[][~RestartStep]_vars) => [](countdownActive => <>(~countdownActive))

\* ------------------------------------------- text, variants, set-up -----
\* C31: the text changes only in a step that is a commit or clearInput.
C31_TextOnlyByCommitOrClear ==
    [][inputText' # inputText =>
          \/ lastEvent'.kind = "poll" /\ emitted' # NoAction
          \/ lastEvent'.kind = "clear"]_vars

\* C31 as the code has it: the text changes only in a commit, in
\* clearInput or when the user types into it; frames, aborts, interval
\* callbacks that do not commit, the slider and the passing of time leave
\* it as it was.
C31_TextOnlyByCommitClearOrTyping ==
    [][/\ inputText' # inputText =>
             \/ lastEvent'.kind = "poll" /\ emitted' # NoAction
             \/ lastEvent'.kind = "clear"
             \/ lastEvent'.kind = "edit"
       /\ lastEvent'.kind \in {"high", "low", "noHand", "noPrediction"} =>
             inputText' = inputText
       /\ (lastEvent'.kind = "poll" /\ ~DwellElapsed) => inputText' = inputText]_vars

C31_Witness ==
    /\ lastEvent = [kind |-> "poll", dwelling |-> TRUE]
    /\ emitted = NoAction
    /\ countdownActive
    /\ ~DwellElapsed
    /\ inputText = <<"A">>

\* C32: in the one-second component the callback that commits is the third
\* one since the countdown was last armed (opened or restarted), the third
\* callback always commits, and countdownValue is within 0..3 in every
\* reachable state.
C32_CommitOnThirdSecond ==
    [][/\ AppSvelte_countdownValue \in 0..InitialCountdownValue
       /\ AppSvelte_countdownValue' \in 0..InitialCountdownValue
       /\ lastEvent'.kind = "second" =>
             (emitted' # NoAction <=> AppSvelte_ticks' = 3)]_vars

\* a countdown opened by A and restarted by B commits on the third callback
\* after the restart
C32_Witness ==
    /\ lastEvent = [kind |-> "second", dwelling |-> TRUE]
    /\ tallied = <<"A", "B">>
    /\ emitted = "A"
    /\ lastAcceptedAction = "B"
    /\ AppSvelte_ticks = 3
    /\ AppSvelte_countdownValue = 0
    /\ now = SecondsHorizon
    /\ ~countdownActive

\* C33: a call of predictFromLandmarks made while the model is not loaded,
\* or with a landmark list that is missing or not 21 points long, returns
\* null without throwing; and a result that is not null carries the label of
\* labelMap at the first index whose confidence is the largest of the
\* outputs.
C33_NullOrFirstStrongestLabel ==
    lastEvent.kind = "predict" =>
        LET result == lastEvent.result
            confidences == lastEvent.run.confidences
        IN  /\ (~lastEvent.loaded \/ lastEvent.count # LandmarkCount) =>
                  ~result.threw /\ ~result.value.ok
            /\ (~result.threw /\ result.value.ok) =>
                  /\ result.value.letter \in Alphabet
                  /\ Cardinality(Alphabet) = 28
                  /\ \E k \in DOMAIN confidences \cap DOMAIN labelMap :
                        /\ result.value.letter = labelMap[k]
                        /\ result.value.confidence = confidences[k]
                        /\ \A j \in DOMAIN confidences :
                              /\ confidences[j] # NaN
                              /\ confidences[j] <= confidences[k]
                              /\ j < k => confidences[j] < confidences[k]

\* the largest confidence is at B and again at SPACE: the result is B
C33_Witness ==
    /\ lastEvent.kind = "predict"
    /\ lastEvent.loaded
    /\ lastEvent.count = LandmarkCount
    /\ ~lastEvent.run.throws
    /\ Len(lastEvent.run.confidences) = Len(labelMap)
    /\ lastEvent.run.confidences[2] = 90
    /\ lastEvent.run.confidences[Len(labelMap)] = 90
    /\ lastEvent.result = [threw |-> FALSE,
                           value |-> [ok |-> TRUE, letter |-> "B", confidence |-> 90]]

\* a step of the set-up was taken before, with the given outcome
Had(log, step, ok) == \E k \in DOMAIN log : log[k] = Attempt(step, ok)

\* every loader was tried only after the one before it had failed, and the
\* test prediction only on a model that was loaded
LoadersInOrder(log) ==
    \A k \in DOMAIN log :
        /\ log[k].step = "LayersModel" =>
              \E j \in 1..(k - 1) : log[j] = Attempt("GraphModel", FALSE)
        /\ log[k].step = "fallback" =>
              \E j \in 1..(k - 1) : log[j] = Attempt("LayersModel", FALSE)
        /\ log[k].step = "test" =>
              \E j \in 1..(k - 1) :
                  /\ log[j].step \in {"GraphModel", "LayersModel", "fallback"}
                  /\ log[j].ok
        /\ log[k].step \in {"GraphModel", "LayersModel", "fallback"} =>
              \A j \in 1..(k - 1) :
                  log[j].step \in {"GraphModel", "LayersModel", "fallback"} => ~log[j].ok

AllLoadersFailed(log) ==
    /\ Had(log, "GraphModel", FALSE)
    /\ Had(log, "LayersModel", FALSE)
    /\ Had(log, "fallback", FALSE)

\* C34: isModelLoaded only with a model and a completed test prediction;
\* the loaders are tried in the order GraphModel, LayersModel, fallback;
\* loadModel rejects, with isModelLoaded false, only when all three loaders
\* failed or the test prediction threw.
C34_RejectsOnlyOnLoadersOrTest ==
    /\ isModelLoaded => model # NoModel /\ Had(attempts, "test", TRUE)
    /\ LoadersInOrder(attempts)
    /\ loadModelPromise = "rejected" =>
          /\ ~isModelLoaded
          /\ AllLoadersFailed(attempts) \/ Had(attempts, "test", FALSE)

\* C34 as the code has it: loadModel also rejects when tf.ready() rejects,
\* before any loader is tried; and it rejects in each of the three cases.
C34_RejectsOnReadyLoadersOrTest ==
    /\ isModelLoaded => model # NoModel /\ Had(attempts, "test", TRUE)
    /\ LoadersInOrder(attempts)
    /\ loadModelPromise = "rejected" => ~isModelLoaded
    /\ loadModelPromise = "rejected" <=>
          \/ Had(attempts, "tfReady", FALSE)
          \/ AllLoadersFailed(attempts)
          \/ Had(attempts, "test", FALSE)

\* the fallback model, loaded after both loaders failed, and tested
C34_Witness ==
    /\ isModelLoaded
    /\ model = "fallback"
    /\ loadModelPromise = "fulfilled"
    /\ attempts = << Attempt("libraries", TRUE), Attempt("tfReady", TRUE),
                     Attempt("GraphModel", FALSE), Attempt("LayersModel", FALSE),
                     Attempt("fallback", TRUE), Attempt("test", TRUE) >>

SetupMoves ==
    { <<"initializing", "loading">>, <<"loading", "ready">>, <<"loading", "failed">> }

\* C35: setupStatus changes only from initializing to loading and from
\* loading to ready or failed; it is ready only after the libraries check,
\* loadModel and camera.start have succeeded; a failure of one of them (or of
\* the MediaPipe set-up between them) leaves it failed with an errorMessage
\* that is not empty; and once ready or failed it stays as it is.
C35_SetupStatusMoves ==
    [][/\ setupStatus' # setupStatus => <<setupStatus, setupStatus'>> \in SetupMoves
       /\ setupStatus \in {"ready", "failed"} => setupStatus' = setupStatus
       /\ setupStatus' = "ready" =>
             /\ Had(attempts', "libraries", TRUE)
             /\ loadModelPromise' = "fulfilled"
             /\ Had(attempts', "camera", TRUE)
       /\ (\/ Had(attempts', "libraries", FALSE)
           \/ loadModelPromise' = "rejected"
           \/ Had(attempts', "hands", FALSE)
           \/ Had(attempts', "camera", FALSE)) =>
             setupStatus' = "failed"
       /\ setupStatus' = "failed" => errorMessage' # ""]_vars

\* camera.start() rejected with an error without a message; time has passed
\* since
C35_Witness ==
    /\ setupStatus = "failed"
    /\ errorMessage = "MediaPipe setup failed: "
    /\ Had(attempts, "camera", FALSE)
    /\ loadModelPromise = "fulfilled"
    /\ lastEvent.kind = "clock"
=============================================================================
